---- MODULE Spec2Model ----
(***************************************************************************)
(* Model of src-tauri/src/openai_whisper.rs: the WAV encoder (encode_wav)  *)
(* and the transcription client (build_headers, transcribe_with_api).      *)
(*                                                                         *)
(* Strings are sequences of byte values.  Response bodies and the texts    *)
(* taken from them are sequences of lexical tokens (see the JSON section). *)
(* An f32 sample is an integer numerator n standing for n / 2^23, with     *)
(* |n| < 2^24: every such value is exactly representable in f32 (24-bit    *)
(* significand) and covers (-2.0, 2.0) at the resolution f32 has around    *)
(* 1.0.                                                                    *)
(***************************************************************************)
EXTENDS Integers, Sequences, FiniteSets, TLC

VARIABLES
    \* ---- one call of transcribe_with_api ----
    pc,          \* "idle", "sending", "errbody", "okbody", "done"
    audio,       \* argument: Vec<f32>
    api_key,     \* argument: &str
    base_url,    \* argument: &str
    model,       \* argument: &str
    language,    \* argument: Option<&str>
    wavCalls,    \* number of times encode_wav has been invoked by the call
    posts,       \* the POST requests handed to the transport, in order
    status,      \* response.status() once a response has arrived
    body,        \* the response body as read by the call
    result,      \* the Result<String, String> returned
    \* ---- one run of encode_wav ----
    wpc,         \* "new", "writing", "returned"
    samples,     \* argument: &[f32]
    wi,          \* number of samples written so far
    cursor,      \* Cursor<Vec<u8>>: the bytes written so far
    wret         \* the Result<Vec<u8>, String> returned

txvars == <<pc, audio, api_key, base_url, model, language, wavCalls, posts,
            status, body, result>>
wavvars == <<wpc, samples, wi, cursor, wret>>
vars == <<txvars, wavvars>>

----------------------------------------------------------------------------
(* Bounds of the model. *)

MaxWavLen == 2      \* longest sample sequence given to encode_wav alone
MaxAudioLen == 2    \* longest audio buffer given to transcribe_with_api
MaxKeyLen == 2      \* longest api_key
MaxUrlLen == 3      \* longest base_url
MaxSlashes == 2     \* trailing slashes appended when comparing request URLs

----------------------------------------------------------------------------
(* f32 arithmetic of line 40. *)

Pow2(k) == 2 ^ k

F32One == Pow2(23)             \* the numerator of 1.0
F32Limit == Pow2(24)           \* numerators are below this in magnitude

Abs(x) == IF x < 0 THEN -x ELSE x

RECURSIVE BitLen(_)
BitLen(x) == IF x = 0 THEN 0 ELSE 1 + BitLen(x \div 2)

Scale == 32767
I16Min == -32768
I16Max == 32767

\* Round-to-nearest, ties-to-even, of q + r / 2^sh to an integer.
RoundHalfEven(q, r, sh) ==
    LET half == Pow2(sh - 1)
    IN  IF r > half \/ (r = half /\ q % 2 = 1) THEN q + 1 ELSE q

\* sample * 32767.0 in f32.  The exact product a * 32767 (in units of 2^-23)
\* is held in two limbs, A * 4096 + B, and rounded to a 24-bit significand.
\* The result is [neg, mant, sh], standing for (+/-) mant * 2^sh / 2^23.
F32MulScale(n) ==
    LET a  == Abs(n)
        lo == (a % 4096) * Scale
        hi == (a \div 4096) * Scale
        A  == hi + (lo \div 4096)
        B  == lo % 4096
        bl == IF A = 0 THEN BitLen(B) ELSE BitLen(A) + 12
        sh == IF bl > 24 THEN bl - 24 ELSE 0
        mant == IF sh = 0 THEN A * 4096 + B
                ELSE IF sh <= 12
                     THEN RoundHalfEven(A * Pow2(12 - sh) + (B \div Pow2(sh)),
                                        B % Pow2(sh), sh)
                     ELSE RoundHalfEven(A \div Pow2(sh - 12),
                                        (A % Pow2(sh - 12)) * 4096 + B, sh)
    IN  [neg |-> n < 0, mant |-> mant, sh |-> sh]

\* An f32 as sign, integer part and whether a fractional part is left.
F32Parts(v) ==
    [neg |-> v.neg,
     ip |-> v.mant \div Pow2(23 - v.sh),
     frac |-> (v.mant % Pow2(23 - v.sh)) # 0]

\* f32::clamp(-32768.0, 32767.0)
ClampI16Range(p) ==
    IF ~p.neg /\ (p.ip > I16Max \/ (p.ip = I16Max /\ p.frac))
        THEN [neg |-> FALSE, ip |-> I16Max, frac |-> FALSE]
    ELSE IF p.neg /\ (p.ip > -I16Min \/ (p.ip = -I16Min /\ p.frac))
        THEN [neg |-> TRUE, ip |-> -I16Min, frac |-> FALSE]
    ELSE p

\* `as i16`: truncation toward zero, saturating at the i16 range.
AsI16(p) ==
    LET t == IF p.neg THEN -p.ip ELSE p.ip
    IN  IF t > I16Max THEN I16Max ELSE IF t < I16Min THEN I16Min ELSE t

\* A plausible slip: the clamp is left out and the cast wraps around.
SampleToI16Wrapping(s) ==
    LET p == F32Parts(F32MulScale(s))
        t == IF p.neg THEN -p.ip ELSE p.ip
    IN  ((t + 32768) % 65536) - 32768

\* let sample_i16 = (sample * 32767.0).clamp(-32768.0, 32767.0) as i16;
SampleToI16(s) == AsI16(ClampI16Range(F32Parts(F32MulScale(s))))

----------------------------------------------------------------------------
(* hound::WavWriter over an in-memory cursor, as encode_wav uses it. *)

SAMPLE_RATE == 16000
Channels == 1
BitsPerSample == 16
HeaderLen == 44

U16LE(x) == <<x % 256, (x \div 256) % 256>>
U32LE(x) == <<x % 256, (x \div 256) % 256, (x \div 65536) % 256,
              (x \div 16777216) % 256>>

\* The 16-bit two's complement little-endian frame of an i16.
I16Frame(v) == U16LE((v + 65536) % 65536)

TagRIFF == <<82, 73, 70, 70>>
TagWAVE == <<87, 65, 86, 69>>
TagFmt  == <<102, 109, 116, 32>>
TagData == <<100, 97, 116, 97>>

\* The canonical RIFF/WAVE header for `dataLen` bytes of PCM data.
WavHeader(dataLen) ==
    TagRIFF \o U32LE(dataLen + HeaderLen - 8) \o TagWAVE
    \o TagFmt \o U32LE(16) \o U16LE(1) \o U16LE(Channels)
    \o U32LE(SAMPLE_RATE)
    \o U32LE(SAMPLE_RATE * Channels * (BitsPerSample \div 8))
    \o U16LE(Channels * (BitsPerSample \div 8)) \o U16LE(BitsPerSample)
    \o TagData \o U32LE(dataLen)

\* WavWriter::new: the header goes out first, its two length fields still 0.
WriterNew == WavHeader(0)

\* A plausible slip: the sample is narrowed to a single byte.
WriteSampleOneByte(buf, s) == buf \o <<(SampleToI16(s) + 65536) % 256>>

\* writer.write_sample(sample_i16) appends one frame.
WriteSample(buf, s) == buf \o I16Frame(SampleToI16(s))

\* writer.finalize(): the RIFF and data chunk lengths are filled in.
WriterFinalize(buf) ==
    WavHeader(Len(buf) - HeaderLen) \o SubSeq(buf, HeaderLen + 1, Len(buf))

RECURSIVE WriteAll(_, _)
WriteAll(buf, ss) ==
    IF ss = <<>> THEN buf ELSE WriteAll(WriteSample(buf, Head(ss)), Tail(ss))

\* encode_wav as a whole.  Writes into a Vec-backed cursor do not fail, so
\* none of the three map_err branches is taken and the result is Ok.
encode_wav(ss) ==
    [ok |-> TRUE, bytes |-> WriterFinalize(WriteAll(WriterNew, ss)), err |-> ""]

NoWav == [ok |-> FALSE, bytes |-> <<>>, err |-> ""]

----------------------------------------------------------------------------
(* encode_wav step by step: lines 25-51. *)

\* Sample values: 0, the smallest magnitudes, 0.5, 1.0, the f32 values next
\* to 1.0, the values around 32768/32767, 1.5 and the largest below 2.0.
SampleMagnitudes ==
    {0, 1, Pow2(22), F32One, F32One + 1, F32One + 255, F32One + 256,
     F32One + 257, F32One + Pow2(22), F32Limit - 1}
SampleValues == SampleMagnitudes \cup {-m : m \in SampleMagnitudes}

SeqsUpTo(S, n) == UNION {[1..k -> S] : k \in 0..n}

WavIdle ==
    /\ wpc = "new" /\ samples = <<>> /\ wi = 0 /\ cursor = <<>>
    /\ wret = NoWav

\* lines 26-36: the cursor and the writer are created.
WavNew ==
    /\ wpc = "new"
    /\ cursor' = WriterNew
    /\ wi' = 0
    /\ wpc' = "writing"
    /\ UNCHANGED <<samples, wret, txvars>>

\* lines 38-44: one iteration of the loop over the samples.
WavWrite ==
    /\ wpc = "writing"
    /\ wi < Len(samples)
    /\ cursor' = WriteSample(cursor, samples[wi + 1])
    /\ wi' = wi + 1
    /\ UNCHANGED <<wpc, samples, wret, txvars>>

\* lines 46-50: finalize and return the cursor's buffer.
WavFinalize ==
    /\ wpc = "writing"
    /\ wi = Len(samples)
    /\ cursor' = WriterFinalize(cursor)
    /\ wret' = [ok |-> TRUE, bytes |-> cursor', err |-> ""]
    /\ wpc' = "returned"
    /\ UNCHANGED <<samples, wi, txvars>>

----------------------------------------------------------------------------
(* JSON text and serde_json.                                               *)
(* A text is a sequence of tokens: the structural tokens below, and any    *)
(* other token standing for a run of ordinary characters.  A JSON string   *)
(* literal is a quote, at most one run of characters, and a quote; its     *)
(* value is the text between the quotes.                                   *)

Q == "\""

JNull == [t |-> "null", s |-> <<>>, keys |-> <<>>, items |-> <<>>]
JNum == [t |-> "num", s |-> <<>>, keys |-> <<>>, items |-> <<>>]
JStr(s) == [t |-> "str", s |-> s, keys |-> <<>>, items |-> <<>>]
JArr(items) == [t |-> "arr", s |-> <<>>, keys |-> <<>>, items |-> items]
JObj(keys, items) == [t |-> "obj", s |-> <<>>, keys |-> keys, items |-> items]

ParseFail == [ok |-> FALSE, val |-> JNull, rest |-> <<>>]
Parsed(v, rest) == [ok |-> TRUE, val |-> v, rest |-> rest]

Drop(ts, n) == SubSeq(ts, n + 1, Len(ts))

RECURSIVE ParseValue(_), ParseElements(_, _), ParseMembers(_, _, _)

\* One JSON value at the front of ts.
ParseValue(ts) ==
    IF ts = <<>> THEN ParseFail
    ELSE IF ts[1] = "null" THEN Parsed(JNull, Drop(ts, 1))
    ELSE IF ts[1] = "5" THEN Parsed(JNum, Drop(ts, 1))
    ELSE IF ts[1] = Q THEN
        IF Len(ts) >= 2 /\ ts[2] = Q THEN Parsed(JStr(<<>>), Drop(ts, 2))
        ELSE IF Len(ts) >= 3 /\ ts[3] = Q
            THEN Parsed(JStr(<<ts[2]>>), Drop(ts, 3))
        ELSE ParseFail
    ELSE IF ts[1] = "[" THEN
        IF Len(ts) >= 2 /\ ts[2] = "]" THEN Parsed(JArr(<<>>), Drop(ts, 2))
        ELSE ParseElements(Drop(ts, 1), <<>>)
    ELSE IF ts[1] = "{" THEN
        IF Len(ts) >= 2 /\ ts[2] = "}"
            THEN Parsed(JObj(<<>>, <<>>), Drop(ts, 2))
        ELSE ParseMembers(Drop(ts, 1), <<>>, <<>>)
    ELSE ParseFail

\* value ("," value)* "]"
ParseElements(ts, acc) ==
    LET v == ParseValue(ts)
    IN  IF ~v.ok \/ v.rest = <<>> THEN ParseFail
        ELSE IF v.rest[1] = ","
            THEN ParseElements(Drop(v.rest, 1), Append(acc, v.val))
        ELSE IF v.rest[1] = "]"
            THEN Parsed(JArr(Append(acc, v.val)), Drop(v.rest, 1))
        ELSE ParseFail

\* string ":" value ("," string ":" value)* "}"
ParseMembers(ts, keys, vals) ==
    LET k == ParseValue(ts)
    IN  IF ~k.ok \/ k.val.t # "str" \/ k.rest = <<>> \/ k.rest[1] # ":"
        THEN ParseFail
        ELSE LET v == ParseValue(Drop(k.rest, 1))
             IN  IF ~v.ok \/ v.rest = <<>> THEN ParseFail
                 ELSE IF v.rest[1] = ","
                     THEN ParseMembers(Drop(v.rest, 1), Append(keys, k.val.s),
                                       Append(vals, v.val))
                 ELSE IF v.rest[1] = "}"
                     THEN Parsed(JObj(Append(keys, k.val.s), Append(vals, v.val)),
                                 Drop(v.rest, 1))
                 ELSE ParseFail

\* A whole text as one JSON value; anything left after the value is an error.
ParseJson(ts) ==
    LET r == ParseValue(ts)
    IN  IF r.ok /\ r.rest = <<>> THEN r ELSE ParseFail

\* #[derive(Deserialize)] on a struct with the single field `name`.
\* serde_json hands a JSON object to the derived visit_map (a repeated field
\* is an error, other fields are ignored) and a JSON array to the derived
\* visit_seq (the field is the first element; no element or more than one is
\* an error).  Anything else is an invalid type.
StructField(v, name) ==
    IF v.t = "obj" THEN
        LET at == {i \in 1..Len(v.keys) : v.keys[i] = <<name>>}
        IN  IF Cardinality(at) > 1
                THEN [ok |-> FALSE, present |-> FALSE, val |-> JNull]
            ELSE IF at = {}
                THEN [ok |-> TRUE, present |-> FALSE, val |-> JNull]
            ELSE [ok |-> TRUE, present |-> TRUE,
                  val |-> v.items[CHOOSE i \in at : TRUE]]
    ELSE IF v.t = "arr" /\ Len(v.items) = 1
        THEN [ok |-> TRUE, present |-> TRUE, val |-> v.items[1]]
    ELSE [ok |-> FALSE, present |-> FALSE, val |-> JNull]

None == [some |-> FALSE, v |-> <<>>]
Some(x) == [some |-> TRUE, v |-> x]
Failed == [ok |-> FALSE, val |-> None]
Got(x) == [ok |-> TRUE, val |-> x]

\* struct ErrorDetail { message: Option<String> }     (lines 19-22)
DeErrorDetail(v) ==
    LET f == StructField(v, "message")
    IN  IF ~f.ok THEN Failed
        ELSE IF ~f.present \/ f.val.t = "null" THEN Got(None)
        ELSE IF f.val.t = "str" THEN Got(Some(f.val.s))
        ELSE Failed

\* struct ErrorResponse { error: Option<ErrorDetail> }     (lines 14-17)
\* The value is the message, when the payload carries one.
DeErrorResponse(v) ==
    LET f == StructField(v, "error")
    IN  IF ~f.ok THEN Failed
        ELSE IF ~f.present \/ f.val.t = "null" THEN Got(None)
        ELSE DeErrorDetail(f.val)

\* struct TranscriptionResponse { text: String }     (lines 9-12)
DeTranscriptionResponse(v) ==
    LET f == StructField(v, "text")
    IN  IF f.ok /\ f.present /\ f.val.t = "str" THEN Got(Some(f.val.s))
        ELSE Failed

\* serde_json::from_str::<ErrorResponse>(&error_text)     (line 147)
ParseErrorResponse(ts) ==
    LET r == ParseJson(ts) IN IF r.ok THEN DeErrorResponse(r.val) ELSE Failed

\* response.json::<TranscriptionResponse>()     (lines 162-165)
ParseTranscriptionResponse(ts) ==
    LET r == ParseJson(ts)
    IN  IF r.ok THEN DeTranscriptionResponse(r.val) ELSE Failed

----------------------------------------------------------------------------
(* The transcription client: lines 54-169. *)

Slash == 47
Tab == 9
Del == 127
FirstPrintable == 32

\* "/audio/transcriptions"
TranscriptionsPath ==
    <<47, 97, 117, 100, 105, 111, 47, 116, 114, 97, 110, 115, 99, 114, 105,
      112, 116, 105, 111, 110, 115>>
BearerPrefix == <<66, 101, 97, 114, 101, 114, 32>>      \* "Bearer "
Auto == <<97, 117, 116, 111>>                           \* "auto"

Ok(text) == [ok |-> TRUE, msg |-> "", status |-> 0, text |-> text]
Err(msg) == [ok |-> FALSE, msg |-> msg, status |-> 0, text |-> <<>>]
ErrStatus(msg, st, text) ==
    [ok |-> FALSE, msg |-> msg, status |-> st, text |-> text]
NoResult == [ok |-> FALSE, msg |-> "", status |-> 0, text |-> <<>>]
NoBody == [readable |-> FALSE, text |-> <<>>]

\* http::HeaderValue::from_str accepts a byte b when
\* b >= 32 && b != 127 || b == b'\t'.
AnyHeaderByte(b) == TRUE

IsValidHeaderByte(b) == (b >= FirstPrintable /\ b # Del) \/ b = Tab

\* build_headers (lines 54-66): the header map, or the error of line 61.
build_headers(key) ==
    IF key # <<>> THEN
        LET value == BearerPrefix \o key
        IN  IF \A i \in 1..Len(value) : IsValidHeaderByte(value[i])
                THEN [ok |-> TRUE,
                      headers |-> <<[name |-> "authorization", value |-> value]>>]
            ELSE [ok |-> FALSE, headers |-> <<>>]
    ELSE [ok |-> TRUE, headers |-> <<>>]

\* A plausible slip: strip_suffix('/') removes a single slash.
StripOneSlash(s) ==
    IF s # <<>> /\ s[Len(s)] = Slash THEN SubSeq(s, 1, Len(s) - 1) ELSE s

\* str::trim_end_matches('/')     (line 94)
RECURSIVE trim_end_matches(_)
trim_end_matches(s) ==
    IF s # <<>> /\ s[Len(s)] = Slash
        THEN trim_end_matches(SubSeq(s, 1, Len(s) - 1))
    ELSE s

\* line 95
RequestUrl(base) == trim_end_matches(base) \o TranscriptionsPath

\* line 86 and line 90, with the slips of leaving either check out.
AudioNeverMissing(a) == FALSE
AudioMissing(a) == a = <<>>
KeyNeverMissing(k) == FALSE
KeyMissing(k) == k = <<>>

\* line 119, with the slip of forgetting the "auto" sentinel.
LanguageNonEmpty(lang) == lang # <<>>
LanguageGiven(lang) == lang # Auto /\ lang # <<>>

FilePart(bytes) ==
    [name |-> "file", value |-> bytes, file_name |-> "audio.wav",
     mime |-> "audio/wav"]
TextPart(name, value) ==
    [name |-> name, value |-> value, file_name |-> "", mime |-> ""]

\* lines 108-122: the multipart form, its parts in order.
BuildForm(wav, mdl, lang) ==
    LET form == <<FilePart(wav), TextPart("model", mdl)>>
    IN  IF lang.some /\ LanguageGiven(lang.v)
            THEN Append(form, TextPart("language", lang.v))
        ELSE form

\* Where the call goes when .send() fails (line 137: map_err and `?`), with
\* the slip of starting over instead.
SendFailureRetries == "idle"
SendFailureReturns == "done"

IsSuccess(st) == 200 <= st /\ st <= 299

\* "Failed to read error response"     (line 144)
ReadFailurePlaceholder == <<"Failed to read error response">>

\* lines 86-137, up to the await of .send(): the call either returns an error
\* or hands one POST request to the transport.  clientOk is whether
\* reqwest's ClientBuilder::build succeeds.
UntilSend(clientOk) ==
    IF AudioMissing(audio)
        THEN [sent |-> FALSE, wav |-> 0, post |-> <<>>,
              result |-> Err("No audio data provided")]
    ELSE IF KeyMissing(api_key)
        THEN [sent |-> FALSE, wav |-> 0, post |-> <<>>,
              result |-> Err("API key is required for transcription")]
    ELSE
        LET url == RequestUrl(base_url)
            wav == encode_wav(audio)
        IN  IF ~wav.ok
                THEN [sent |-> FALSE, wav |-> 1, post |-> <<>>,
                      result |-> Err(wav.err)]
            ELSE
                LET form == BuildForm(wav.bytes, model, language)
                    hdrs == build_headers(api_key)
                IN  IF ~hdrs.ok
                        THEN [sent |-> FALSE, wav |-> 1, post |-> <<>>,
                              result |-> Err("Invalid authorization header value: ")]
                    ELSE IF ~clientOk
                        THEN [sent |-> FALSE, wav |-> 1, post |-> <<>>,
                              result |-> Err("Failed to build HTTP client: ")]
                    ELSE [sent |-> TRUE, wav |-> 1,
                          post |-> <<[url |-> url, headers |-> hdrs.headers,
                                      form |-> form]>>,
                          result |-> NoResult]

Call ==
    /\ pc = "idle"
    /\ \E clientOk \in BOOLEAN :
          LET r == UntilSend(clientOk)
          IN  /\ wavCalls' = wavCalls + r.wav
              /\ posts' = posts \o r.post
              /\ result' = r.result
              /\ pc' = IF r.sent THEN "sending" ELSE "done"
    /\ UNCHANGED <<audio, api_key, base_url, model, language, status, body,
                   wavvars>>

\* line 137: the transport reports a failure.
SendFails ==
    /\ pc = "sending"
    /\ result' = Err("HTTP request failed: ")
    /\ pc' = SendFailureReturns
    /\ UNCHANGED <<audio, api_key, base_url, model, language, wavCalls, posts,
                   status, body, wavvars>>

\* lines 139-140: a response arrives and its status is looked at.
ResponseArrives(st) ==
    /\ pc = "sending"
    /\ status' = st
    /\ pc' = IF IsSuccess(st) THEN "okbody" ELSE "errbody"
    /\ UNCHANGED <<audio, api_key, base_url, model, language, wavCalls, posts,
                   body, result, wavvars>>

\* lines 141-158, given the text read from the response.
ApiFailure(st, error_text) ==
    LET parsed == ParseErrorResponse(error_text)
    IN  IF parsed.ok /\ parsed.val.some
            THEN ErrStatus("API error ({}): {}", st, parsed.val.v)
        ELSE ErrStatus("API request failed with status {}: {}", st, error_text)

\* lines 141-158: the body of a non-success response is read (or not).
ErrorBody(b) ==
    /\ pc = "errbody"
    /\ body' = b
    /\ result' = ApiFailure(status, IF b.readable THEN b.text
                                    ELSE ReadFailurePlaceholder)
    /\ pc' = "done"
    /\ UNCHANGED <<audio, api_key, base_url, model, language, wavCalls, posts,
                   status, wavvars>>

\* lines 162-168, given the body read from the response.
Transcription(b) ==
    IF ~b.readable THEN Err("Failed to parse API response: ")
    ELSE LET parsed == ParseTranscriptionResponse(b.text)
         IN  IF parsed.ok THEN Ok(parsed.val.v)
             ELSE Err("Failed to parse API response: ")

\* lines 162-168: the body of a success response is read (or not).
SuccessBody(b) ==
    /\ pc = "okbody"
    /\ body' = b
    /\ result' = Transcription(b)
    /\ pc' = "done"
    /\ UNCHANGED <<audio, api_key, base_url, model, language, wavCalls, posts,
                   status, wavvars>>

----------------------------------------------------------------------------
(* The inputs and the environment the model draws from. *)

Statuses == {200, 299, 300, 401, 500}

Str(w) == <<Q, w, Q>>
Member(k, v) == Str(k) \o <<":">> \o v
Obj1(k, v) == <<"{">> \o Member(k, v) \o <<"}">>
Obj2(k1, v1, k2, v2) ==
    <<"{">> \o Member(k1, v1) \o <<",">> \o Member(k2, v2) \o <<"}">>
Arr1(v) == <<"[">> \o v \o <<"]">>

BodyTexts ==
    << <<>>,                                            \* empty body
       <<"internal error">>,                            \* not JSON
       Str("hello world"),                              \* a bare JSON string
       <<"{", "}">>,
       Obj1("error", Obj1("message", Str("invalid key"))),
       Obj1("error", Obj1("message", <<Q, Q>>)),
       Obj1("error", Obj1("message", <<"null">>)),
       Obj1("error", Obj1("message", <<"5">>)),
       Obj1("error", Obj1("code", <<"5">>)),
       Obj1("error", <<"null">>),
       Obj1("error", Str("oops")),
       Obj2("code", <<"5">>, "error", Obj1("message", Str("invalid key"))),
       Obj1("text", Str("hello world")),
       Obj1("text", <<Q, Q>>),
       Obj1("text", <<"null">>),
       Obj1("text", <<"5">>),
       Obj2("error", <<"null">>, "text", Str("hello world")),
       Obj1("text", Str("hello world")) \o <<"}">>,      \* trailing characters
       <<"{", Q, "text", Q, ":">>,                       \* truncated
       Arr1(Str("hello world")),
       Arr1(Obj1("message", Str("invalid key"))),
       Arr1(<<"null">>),
       <<"[", "]">> >>

Bodies ==
    {[readable |-> TRUE, text |-> BodyTexts[i]] : i \in 1..Len(BodyTexts)}
    \cup {NoBody}

KeyBytes == {107, Tab, 10}           \* 'k', a tab, a line feed
UrlBytes == {104, Slash}             \* 'h', '/'
Languages ==
    {None, Some(<<>>), Some(Auto), Some(<<101, 115>>), Some(<<65, 85, 84, 79>>)}
Models == {<<>>, <<119>>}

TxIdle ==
    /\ pc = "idle" /\ wavCalls = 0 /\ posts = <<>> /\ status = 0
    /\ body = NoBody /\ result = NoResult

\* Calls that differ in the audio, the key, the model and the language.
Init ==
    /\ TxIdle
    /\ audio \in SeqsUpTo({Pow2(22)}, MaxAudioLen)
    /\ api_key \in SeqsUpTo(KeyBytes, MaxKeyLen)
    /\ base_url \in {<<104>>, <<104, Slash>>}
    /\ model \in Models
    /\ language \in Languages
    /\ WavIdle

\* Calls that differ in the base URL, the model and the language.
InitRequest ==
    /\ TxIdle
    /\ audio = <<Pow2(22)>>
    /\ api_key = <<107>>
    /\ base_url \in SeqsUpTo(UrlBytes, MaxUrlLen)
    /\ model \in Models
    /\ language \in Languages
    /\ WavIdle

\* Runs of encode_wav alone.
InitWav ==
    /\ TxIdle
    /\ audio = <<>> /\ api_key = <<>> /\ base_url = <<>> /\ model = <<>>
    /\ language = None
    /\ wpc = "new" /\ samples \in SeqsUpTo(SampleValues, MaxWavLen)
    /\ wi = 0 /\ cursor = <<>> /\ wret = NoWav

Next ==
    \/ Call
    \/ SendFails
    \/ \E st \in Statuses : ResponseArrives(st)
    \/ \E b \in Bodies : ErrorBody(b)
    \/ \E b \in Bodies : SuccessBody(b)

NextWav ==
    \/ WavNew
    \/ WavWrite
    \/ WavFinalize

Spec == Init /\ [][Next]_vars
SpecRequest == InitRequest /\ [][Next]_vars
SpecWav == InitWav /\ [][NextWav]_vars

----------------------------------------------------------------------------
(* The error kinds of the description, by the message the code returns. *)

ErrorKind(r) ==
    IF r.msg \in {"No audio data provided",
                  "API key is required for transcription"} THEN "InputError"
    ELSE IF r.msg \in {"Failed to create WAV writer: ",
                       "Failed to write sample: ",
                       "Failed to finalize WAV: "} THEN "EncodingError"
    ELSE IF r.msg = "Invalid authorization header value: " THEN "HeaderError"
    ELSE IF r.msg \in {"Failed to build HTTP client: ", "HTTP request failed: "}
        THEN "TransportError"
    ELSE IF r.msg \in {"API error ({}): {}",
                       "API request failed with status {}: {}"} THEN "ApiError"
    ELSE IF r.msg = "Failed to parse API response: " THEN "ResponseParseError"
    ELSE "none"

Done == pc = "done"
NothingSent == posts = <<>> /\ pc \in {"idle", "done"}

\* C1: a call with an empty audio sequence ends in the InputError "no audio
\* data", whatever the other arguments are, and at no point of the call has a
\* request been sent or the WAV encoder been invoked.
C1_EmptyAudio ==
    audio = <<>> =>
        /\ NothingSent
        /\ wavCalls = 0
        /\ Done => /\ result = Err("No audio data provided")
                   /\ ErrorKind(result) = "InputError"

C1_Witness ==
    /\ Done /\ audio = <<>> /\ api_key = <<10>>
    /\ result.msg = "No audio data provided"

\* C2: a call with an empty api_key fails with an InputError and sends no
\* request, for every base_url, model and language; the InputError is "API
\* key required" whenever the audio is there.
C2_EmptyKey ==
    api_key = <<>> =>
        /\ NothingSent
        /\ Done => /\ ~result.ok
                   /\ ErrorKind(result) = "InputError"
                   /\ audio # <<>> =>
                        result = Err("API key is required for transcription")

C2_Witness ==
    /\ Done /\ api_key = <<>> /\ audio # <<>>
    /\ result.msg = "API key is required for transcription"

\* C3: a call sends at most one POST request; a transport failure, a
\* non-success status or a response that does not parse ends the call with
\* that one request sent and no other; and a call that has returned has
\* returned either a text or a failure with a description, never both or
\* neither.
C3_SinglePost ==
    /\ Len(posts) <= 1
    /\ pc \in {"sending", "errbody", "okbody"} => Len(posts) = 1
    /\ ~Done => result = NoResult
    /\ Done =>
        /\ \/ result.ok /\ result.msg = ""
           \/ ~result.ok /\ result.msg # "" /\ ErrorKind(result) # "none"
        /\ (result.ok \/ result.msg = "HTTP request failed: "
              \/ ErrorKind(result) \in {"ApiError", "ResponseParseError"})
             => Len(posts) = 1

C3_Witness ==
    /\ Done /\ Len(posts) = 1 /\ result.msg = "HTTP request failed: "

\* What a JSON document says, independently of the structs of the code.
IsObject(v) == v.t = "obj"
HasMember(v, k) == IsObject(v) /\ \E i \in 1..Len(v.keys) : v.keys[i] = <<k>>
MemberOf(v, k) == v.items[CHOOSE i \in 1..Len(v.keys) : v.keys[i] = <<k>>]

\* The text is a JSON object with an error object that has a message string.
CarriesErrorMessage(text) ==
    LET r == ParseJson(text)
    IN  /\ r.ok
        /\ HasMember(r.val, "error")
        /\ HasMember(MemberOf(r.val, "error"), "message")
        /\ MemberOf(MemberOf(r.val, "error"), "message").t = "str"
ErrorMessageOf(text) ==
    MemberOf(MemberOf(ParseJson(text).val, "error"), "message").s

\* The text is a JSON object with a text string.
CarriesText(text) ==
    LET r == ParseJson(text)
    IN  r.ok /\ HasMember(r.val, "text") /\ MemberOf(r.val, "text").t = "str"
TextOf(text) == MemberOf(ParseJson(text).val, "text").s

ErrorTextRead == IF body.readable THEN body.text ELSE ReadFailurePlaceholder

\* C4: after any non-success status, whatever the body, the call fails with
\* an ApiError that carries the status; its detail is the nested
\* error.message when the body is a JSON object carrying one, and the raw
\* body text (or the placeholder, when the body cannot be read) otherwise.
C4_ApiErrorDetail ==
    (Done /\ status # 0 /\ ~IsSuccess(status)) =>
        /\ ~result.ok
        /\ ErrorKind(result) = "ApiError"
        /\ result.status = status
        /\ result.text = IF CarriesErrorMessage(ErrorTextRead)
                             THEN ErrorMessageOf(ErrorTextRead)
                         ELSE ErrorTextRead

\* C5: after any success status the call returns the body's text field as it
\* is when the body is JSON with a text field, and fails with a
\* ResponseParseError when the body is not JSON or has no text field; it
\* never answers with an ApiError.
C5_SuccessText ==
    (Done /\ IsSuccess(status)) =>
        /\ ErrorKind(result) # "ApiError"
        /\ IF body.readable /\ CarriesText(body.text)
               THEN result = Ok(TextOf(body.text))
           ELSE ~result.ok /\ ErrorKind(result) = "ResponseParseError"

PartsNamed(form, name) ==
    LET Is(p) == p.name = name IN SelectSeq(form, Is)

\* C6: a request has a language field, with the given value, exactly when a
\* language is given that is neither empty nor "auto"; it always has the file
\* field (the WAV of the audio, as audio.wav, audio/wav) and the model field.
C6_LanguageField ==
    \A i \in 1..Len(posts) :
        LET form == posts[i].form
            wanted == language.some /\ language.v # <<>> /\ language.v # Auto
        IN  /\ PartsNamed(form, "language") =
                  IF wanted THEN <<TextPart("language", language.v)>> ELSE <<>>
            /\ PartsNamed(form, "file") = <<FilePart(encode_wav(audio).bytes)>>
            /\ PartsNamed(form, "model") = <<TextPart("model", model)>>

C6_Witness ==
    /\ posts # <<>> /\ language = Some(<<101, 115>>)
    /\ PartsNamed(posts[1].form, "language") # <<>>

Slashes(k) == [i \in 1..k |-> Slash]

\* C7: the request URL is the same for the base URL followed by any number
\* of further slashes, it is the base URL without its trailing slashes
\* followed by /audio/transcriptions, and stripping twice strips no more.
C7_TrailingSlashes ==
    posts # <<>> =>
        LET url == posts[1].url
        IN  /\ \A k \in 0..MaxSlashes : RequestUrl(base_url \o Slashes(k)) = url
            /\ \E n \in 0..Len(base_url) :
                  /\ n = 0 \/ base_url[n] # Slash
                  /\ \A j \in (n + 1)..Len(base_url) : base_url[j] = Slash
                  /\ url = SubSeq(base_url, 1, n) \o TranscriptionsPath
            /\ trim_end_matches(trim_end_matches(base_url))
                  = trim_end_matches(base_url)

C7_Witness ==
    /\ posts # <<>> /\ base_url = <<104, Slash, Slash>>
    /\ posts[1].url = <<104>> \o TranscriptionsPath

\* The 16-bit value held by frame i of a finished buffer.
FrameValue(buf, i) ==
    LET u == buf[HeaderLen + 2 * i - 1] + 256 * buf[HeaderLen + 2 * i]
    IN  IF u >= 32768 THEN u - 65536 ELSE u

\* C8: for every sample sequence of length N, the empty one included,
\* encode_wav returns Ok with exactly 44 + 2N bytes: a 44-byte header, then
\* the samples' 16-bit values as little-endian frames in input order.
C8_WavLength ==
    /\ wpc # "returned" =>
        /\ wret = NoWav
        /\ wpc = "new" \/ (wpc = "writing" /\ wi <= Len(samples))
    /\ wpc = "returned" =>
        /\ wret.ok
        /\ wret.bytes = encode_wav(samples).bytes
        /\ Len(wret.bytes) = 44 + 2 * Len(samples)
        /\ SubSeq(wret.bytes, 1, 4) = TagRIFF
        /\ SubSeq(wret.bytes, 37, 44) = TagData \o U32LE(2 * Len(samples))
        /\ \A i \in 1..Len(samples) :
              FrameValue(wret.bytes, i) = SampleToI16(samples[i])
        /\ samples = <<>> => Len(wret.bytes) = 44

C8_Witness ==
    /\ wpc = "returned" /\ Len(samples) = 2 /\ samples[1] # samples[2]
    /\ Len(wret.bytes) = 48

\* The claim as first stated: every sample above 1.0 is written as 32767 and
\* every sample below -1.0 as -32768.
C9_ClampedBoundary ==
    wpc = "returned" =>
        \A i \in 1..Len(samples) :
            /\ samples[i] > F32One => FrameValue(wret.bytes, i) = 32767
            /\ samples[i] < -F32One => FrameValue(wret.bytes, i) = -32768

\* The least magnitude whose f32 product with 32767.0 reaches 32768.0:
\* 1 + 2^-15.
SaturatesLow == F32One + Pow2(8)

\* C9: every sample above 1.0 is written as 32767; a sample below -1.0 is
\* written as -32768 when it is at most -(1 + 2^-15), and as -32767 when it
\* lies between that and -1.0; the value never wraps around.
C9_ClampedValue ==
    wpc = "returned" =>
        \A i \in 1..Len(samples) :
            /\ samples[i] > F32One => FrameValue(wret.bytes, i) = 32767
            /\ samples[i] <= -SaturatesLow => FrameValue(wret.bytes, i) = -32768
            /\ (-SaturatesLow < samples[i] /\ samples[i] < -F32One)
                  => FrameValue(wret.bytes, i) = -32767

C9_Witness ==
    /\ wpc = "returned" /\ Len(samples) = 2
    /\ samples[1] = -(F32One + 1) /\ FrameValue(wret.bytes, 1) = -32767
    /\ samples[2] = F32One + 1 /\ FrameValue(wret.bytes, 2) = 32767

\* A byte that an HTTP header value may not hold: a control character other
\* than the tab.
InvalidHeaderChar(b) == (b < 32 /\ b # 9) \/ b = 127
InvalidKey(k) == \E i \in 1..Len(k) : InvalidHeaderChar(k[i])

\* C10: every request sent carries the single header Authorization: Bearer
\* <api_key>, the key not empty; a key with a character invalid in a header
\* value has no request sent, and the call fails with a HeaderError, the
\* audio having been encoded once by then.
C10_Authorization ==
    /\ \A i \in 1..Len(posts) :
          /\ api_key # <<>>
          /\ posts[i].headers =
                <<[name |-> "authorization", value |-> BearerPrefix \o api_key]>>
    /\ InvalidKey(api_key) =>
          /\ NothingSent
          /\ (Done /\ audio # <<>>) =>
                /\ result = Err("Invalid authorization header value: ")
                /\ ErrorKind(result) = "HeaderError"
                /\ wavCalls = 1

C10_Witness ==
    /\ Done /\ api_key = <<107, 10>> /\ wavCalls = 1 /\ posts = <<>>
    /\ result.msg = "Invalid authorization header value: "

====
